---- MODULE Spec2Model ----
(***************************************************************************)
(* Escrow program, instruction processor (src/src/processor.rs).           *)
(*                                                                         *)
(* The state is the part of the ledger the processor reads and writes:     *)
(* the data of the escrow (record storage) accounts and, inside the token  *)
(* program, the owner authority of the temporary token accounts.  One      *)
(* action, Process, is one call of Processor::process on an instruction    *)
(* payload and an account list.  The state also keeps the last call, its   *)
(* result, the cross-program invocations it issued and the ledger as it    *)
(* was when the call started, so that the properties of a call are state   *)
(* predicates.                                                             *)
(*                                                                         *)
(* The model is of the processor itself: a call's effects are the writes   *)
(* the handler has made to the account data it was handed when it returns. *)
(* What a runtime around the processor does with a failed instruction is   *)
(* not part of processor.rs and is not modelled.                           *)
(***************************************************************************)
EXTENDS Integers, Sequences, FiniteSets, TLC

(***************************************************************************)
(* Bounds of the model.                                                    *)
(***************************************************************************)
\* longest account list a call supplies (the handler reads six)
MaxAccounts == 6
\* instruction bytes range over 0..MaxByte
MaxByte == 1

(***************************************************************************)
(* Identities (Pubkey values) and the accounts a call can name.            *)
(***************************************************************************)
ProgramId == "escrow_program"
SplTokenId == "spl_token"
OtherProgramId == "other_program"
RentSysvarId == "sysvar_rent"
ZeroKey == "zero"

Users == {"alice", "bob"}
TempAccounts == {"tempX1", "tempX2"}
ReceiveAccounts == {"recvY", "fakeY"}
EscrowAccounts == {"escrow1", "escrow2", "escrowPoor"}

\* AccountInfo.owner
AccountOwner(key) ==
    CASE key \in TempAccounts -> SplTokenId
      [] key = "recvY" -> SplTokenId
      [] key = "fakeY" -> OtherProgramId
      [] key \in EscrowAccounts -> ProgramId
      [] OTHER -> "system_program"

(***************************************************************************)
(* The escrow record and its fixed-width layout.  The account data is the  *)
(* sequence of the record's fields in declaration order, one slot a field. *)
(***************************************************************************)
\* Escrow::LEN, in slots
EscrowLen == 5

\* a freshly allocated escrow account: all zero
ZeroData == <<0, ZeroKey, ZeroKey, ZeroKey, 0>>

\* Pack::unpack_unchecked followed by Escrow::unpack_from_slice
Escrow_unpack_unchecked(data) ==
    IF Len(data) # EscrowLen
    THEN [ok |-> FALSE, err |-> "InvalidAccountData"]
    ELSE [ok |-> TRUE,
          escrow |-> [is_initialized |-> (data[1] # 0),
                      initializer_pubkey |-> data[2],
                      temp_token_account_pubkey |-> data[3],
                      initializer_token_to_receive_account_pubkey |-> data[4],
                      expected_amount |-> data[5]]]

\* Pack::pack followed by Escrow::pack_into_slice
Escrow_pack(escrow) ==
    << IF escrow.is_initialized THEN 1 ELSE 0,
       escrow.initializer_pubkey,
       escrow.temp_token_account_pubkey,
       escrow.initializer_token_to_receive_account_pubkey,
       escrow.expected_amount >>

\* AccountInfo.lamports() of the escrow accounts
Lamports(key) == IF key = "escrowPoor" THEN EscrowLen - 1 ELSE EscrowLen

\* Rent::is_exempt: the balance covers the minimum for the data length
\* (one lamport a slot in this model)
Rent_is_exempt(lamports, data_len) == lamports >= data_len

(***************************************************************************)
(* The instruction payload: byte 0 is the tag, bytes 1..8 are the          *)
(* little-endian u64 amount.                                               *)
(***************************************************************************)
\* size of the amount, in bytes
AmountLen == 8

RECURSIVE from_le_bytes(_)
from_le_bytes(bs) ==
    IF Len(bs) = 0 THEN 0 ELSE Head(bs) + 256 * from_le_bytes(Tail(bs))

\* EscrowInstruction::unpack
EscrowInstruction_unpack(input) ==
    IF Len(input) = 0
    THEN [ok |-> FALSE, err |-> "InvalidInstruction"]
    ELSE IF Head(input) # 0
    THEN [ok |-> FALSE, err |-> "InvalidInstruction"]
    ELSE IF Len(Tail(input)) < AmountLen
    THEN [ok |-> FALSE, err |-> "InvalidInstruction"]
    ELSE [ok |-> TRUE,
          amount |-> from_le_bytes(SubSeq(Tail(input), 1, AmountLen))]

\* Pubkey::find_program_address
find_program_address(seed, program_id) ==
    IF seed = "escrow" /\ program_id = ProgramId THEN "pda_escrow"
    ELSE "pda_other"

(***************************************************************************)
(* State.                                                                  *)
(***************************************************************************)
VARIABLES
    escrow_data,      \* escrow account key -> account data
    token_owner,      \* temp token account key -> its owner authority
    pre_escrow_data,  \* escrow_data when the last call started
    pre_token_owner,  \* token_owner when the last call started
    call,             \* the last call: [accounts, instruction_data]
    result,           \* what the last call returned
    invoked,          \* the cross-program invocations the last call issued
    pc                \* "idle": no call to look at; "returned": a call has
                      \* returned and its result is in call, result, invoked

vars == <<escrow_data, token_owner, pre_escrow_data, pre_token_owner,
          call, result, invoked, pc>>

InitialOwner(temp) == IF temp = "tempX1" THEN "alice" ELSE "bob"

Init ==
    /\ escrow_data = [e \in EscrowAccounts |-> ZeroData]
    /\ token_owner = [t \in TempAccounts |-> InitialOwner(t)]
    /\ pre_escrow_data = escrow_data
    /\ pre_token_owner = token_owner
    /\ call = [accounts |-> <<>>, instruction_data |-> <<>>]
    /\ result = "none"
    /\ invoked = <<>>
    /\ pc = "idle"

(***************************************************************************)
(* Inputs of a call.                                                       *)
(***************************************************************************)
AccountInfo(key, is_signer) == [key |-> key, is_signer |-> is_signer]

\* the accounts a caller places at position i of the list
Candidates(i) ==
    CASE i = 1 -> {AccountInfo(u, TRUE) : u \in Users}
                  \cup {AccountInfo("alice", FALSE)}
      [] i = 2 -> {AccountInfo(t, FALSE) : t \in TempAccounts}
      [] i = 3 -> {AccountInfo(r, FALSE) : r \in ReceiveAccounts}
      [] i = 4 -> {AccountInfo(e, FALSE) : e \in EscrowAccounts}
      [] i = 5 -> {AccountInfo(k, FALSE) : k \in {RentSysvarId, "recvY"}}
      [] i = 6 -> {AccountInfo(k, FALSE) : k \in {SplTokenId, OtherProgramId}}
      [] OTHER -> {AccountInfo("extra", FALSE)}

RECURSIVE AccountListsOfLen(_)
AccountListsOfLen(n) ==
    IF n = 0 THEN {<<>>}
    ELSE {Append(l, a) : l \in AccountListsOfLen(n - 1), a \in Candidates(n)}

AccountLists == UNION {AccountListsOfLen(n) : n \in 0..MaxAccounts}

\* u64::to_le_bytes, as the client encodes the amount
RECURSIVE le_bytes(_, _)
le_bytes(amount, n) ==
    IF n = 0 THEN <<>>
    ELSE <<amount % 256>> \o le_bytes(amount \div 256, n - 1)

to_le_bytes(amount) == le_bytes(amount, AmountLen)

\* the payloads: empty, an Initialize whose amount lacks its last byte,
\* unknown tags, and well-formed Initialize payloads
Payloads ==
    {<<>>}
    \cup {SubSeq(<<0>> \o to_le_bytes(MaxByte), 1, AmountLen)}
    \cup {<<t>> \o to_le_bytes(0) : t \in 1..MaxByte}
    \cup {<<0>> \o to_le_bytes(a) : a \in 0..MaxByte}

(***************************************************************************)
(* The token program, at its boundary.                                     *)
(***************************************************************************)
\* what the environment decides in a call: whether the instruction builder
\* of the linked spl_token version verifies the program id it is given, and
\* whether the invoked program fails for a reason of its own
ExtChoices == [builder_checks : BOOLEAN, cpi_ok : BOOLEAN]

\* spl_token::instruction::set_authority: builds the instruction
set_authority(token_program_id, owned, new_authority, owner, ext) ==
    IF ext.builder_checks /\ token_program_id # SplTokenId
    THEN [ok |-> FALSE, err |-> "IncorrectProgramId"]
    ELSE [ok |-> TRUE,
          ix |-> [program_id |-> token_program_id,
                  account |-> owned,
                  new_authority |-> new_authority,
                  current_authority |-> owner,
                  signers |-> {owner}]]

\* program::invoke of a SetAuthority instruction: the token program moves
\* the owner authority if the current owner asks for it; another program
\* leaves the token accounts alone
invoke(ix, owners, ext) ==
    IF ~ext.cpi_ok
    THEN [ok |-> FALSE, err |-> "DelegationFailed", token_owner |-> owners]
    ELSE IF ix.program_id # SplTokenId
    THEN [ok |-> TRUE, token_owner |-> owners]
    ELSE IF owners[ix.account] # ix.current_authority
    THEN [ok |-> FALSE, err |-> "DelegationFailed", token_owner |-> owners]
    ELSE [ok |-> TRUE,
          token_owner |-> [owners EXCEPT ![ix.account] = ix.new_authority]]

(***************************************************************************)
(* Processor.                                                              *)
(***************************************************************************)
\* what a call leaves behind: the value it returns, the account data and the
\* token authorities as the handler left them, the invocations it issued
Outcome(res, data, owners, cpis) ==
    [result |-> res, escrow_data |-> data, token_owner |-> owners,
     invoked |-> cpis]

\* next_account_info on a list whose iterator stands before position i
HasAccount(accounts, i) == i <= Len(accounts)

\* initializer_signed with the test left out
initializer_signed_unchecked(initializer) == TRUE

\* line 42: the initializer account carries a signature
initializer_signed(initializer) == initializer.is_signer

\* owned_by_token_program with the test left out
owned_by_token_program_unchecked(token_to_receive_account) == TRUE

\* line 59: the account to receive into belongs to the token program
owned_by_token_program(token_to_receive_account) ==
    AccountOwner(token_to_receive_account.key) = SplTokenId

\* is_rent_sysvar accepting any account
is_rent_sysvar_unchecked(account) == TRUE

\* line 64: Rent::from_account_info accepts the rent sysvar account only
is_rent_sysvar(account) == account.key = RentSysvarId

\* escrow_rent_exempt with the test left out
escrow_rent_exempt_unchecked(escrow_account, data) == TRUE

\* line 66: the escrow account is rent exempt for its data length
escrow_rent_exempt(escrow_account, data) ==
    Rent_is_exempt(Lamports(escrow_account.key), Len(data[escrow_account.key]))

\* Escrow_is_initialized never reporting an initialized record
Escrow_is_initialized_never(escrow) == FALSE

\* line 71: IsInitialized::is_initialized of the decoded record
Escrow_is_initialized(escrow) == escrow.is_initialized

\* fill_escrow_info with the two token account keys exchanged
fill_escrow_info_swapped(escrow_info, accounts, amount) ==
    [escrow_info EXCEPT
        !.is_initialized = TRUE,
        !.initializer_pubkey = accounts[1].key,
        !.temp_token_account_pubkey = accounts[3].key,
        !.initializer_token_to_receive_account_pubkey = accounts[2].key,
        !.expected_amount = amount]

\* lines 75-79: the record the handler fills in
fill_escrow_info(escrow_info, accounts, amount) ==
    [escrow_info EXCEPT
        !.is_initialized = TRUE,
        !.initializer_pubkey = accounts[1].key,
        !.temp_token_account_pubkey = accounts[2].key,
        !.initializer_token_to_receive_account_pubkey = accounts[3].key,
        !.expected_amount = amount]

\* line 83: the program derived address that takes the temp account over
escrow_pda(program_id) == find_program_address("escrow", program_id)

\* persist_record writing the record into every escrow account
persist_record_everywhere(data, escrow_account, escrow_info) ==
    [e \in DOMAIN data |-> Escrow_pack(escrow_info)]

\* line 82: Escrow::pack into the data of the escrow account
persist_record(data, escrow_account, escrow_info) ==
    [data EXCEPT ![escrow_account.key] = Escrow_pack(escrow_info)]

\* lines 82-118: persist the record, fetch the token program, build the
\* instruction, invoke it
init_escrow_commit(accounts, escrow_info, data, owners, program_id, ext) ==
    LET initializer == accounts[1]
        temp_token_account == accounts[2]
        escrow_account == accounts[4]
        written == persist_record(data, escrow_account, escrow_info)
        pda == escrow_pda(program_id)
    IN  IF ~HasAccount(accounts, 6)
        THEN Outcome("NotEnoughAccountKeys", written, owners, <<>>)
        ELSE
        LET token_program == accounts[6]
            owner_change_ix == set_authority(token_program.key,
                                             temp_token_account.key, pda,
                                             initializer.key, ext)
        IN  IF ~owner_change_ix.ok
            THEN Outcome(owner_change_ix.err, written, owners, <<>>)
            ELSE
            LET cpi == invoke(owner_change_ix.ix, owners, ext)
                issued == <<[ix |-> owner_change_ix.ix, ok |-> cpi.ok]>>
            IN  IF ~cpi.ok
                THEN Outcome(cpi.err, written, owners, issued)
                ELSE Outcome("Ok", written, cpi.token_owner, issued)

\* process_init_escrow testing the owner of the receiving account before the
\* signature of the initializer
process_init_escrow_owner_first(accounts, amount, program_id, data, owners, ext) ==
    LET Fail(e) == Outcome(e, data, owners, <<>>)
    IN  IF ~HasAccount(accounts, 1) THEN Fail("NotEnoughAccountKeys")
        ELSE IF ~HasAccount(accounts, 2) THEN Fail("NotEnoughAccountKeys")
        ELSE IF ~HasAccount(accounts, 3) THEN Fail("NotEnoughAccountKeys")
        ELSE IF ~owned_by_token_program(accounts[3])
             THEN Fail("IncorrectProgramId")
        ELSE IF ~initializer_signed(accounts[1])
             THEN Fail("MissingRequiredSignature")
        ELSE IF ~HasAccount(accounts, 4) THEN Fail("NotEnoughAccountKeys")
        ELSE IF ~HasAccount(accounts, 5) THEN Fail("NotEnoughAccountKeys")
        ELSE IF ~is_rent_sysvar(accounts[5]) THEN Fail("InvalidArgument")
        ELSE IF ~escrow_rent_exempt(accounts[4], data) THEN Fail("NotRentExempt")
        ELSE
        LET unpacked == Escrow_unpack_unchecked(data[accounts[4].key])
        IN  IF ~unpacked.ok THEN Fail(unpacked.err)
            ELSE IF Escrow_is_initialized(unpacked.escrow)
                 THEN Fail("AccountAlreadyInitialized")
            ELSE init_escrow_commit(accounts,
                                    fill_escrow_info(unpacked.escrow, accounts, amount),
                                    data, owners, program_id, ext)

\* Processor::process_init_escrow
process_init_escrow(accounts, amount, program_id, data, owners, ext) ==
    LET Fail(e) == Outcome(e, data, owners, <<>>)
    IN  IF ~HasAccount(accounts, 1) THEN Fail("NotEnoughAccountKeys")
        ELSE IF ~initializer_signed(accounts[1])
             THEN Fail("MissingRequiredSignature")
        ELSE IF ~HasAccount(accounts, 2) THEN Fail("NotEnoughAccountKeys")
        ELSE IF ~HasAccount(accounts, 3) THEN Fail("NotEnoughAccountKeys")
        ELSE IF ~owned_by_token_program(accounts[3])
             THEN Fail("IncorrectProgramId")
        ELSE IF ~HasAccount(accounts, 4) THEN Fail("NotEnoughAccountKeys")
        ELSE IF ~HasAccount(accounts, 5) THEN Fail("NotEnoughAccountKeys")
        ELSE IF ~is_rent_sysvar(accounts[5]) THEN Fail("InvalidArgument")
        ELSE IF ~escrow_rent_exempt(accounts[4], data) THEN Fail("NotRentExempt")
        ELSE
        LET unpacked == Escrow_unpack_unchecked(data[accounts[4].key])
        IN  IF ~unpacked.ok THEN Fail(unpacked.err)
            ELSE IF Escrow_is_initialized(unpacked.escrow)
                 THEN Fail("AccountAlreadyInitialized")
            ELSE init_escrow_commit(accounts,
                                    fill_escrow_info(unpacked.escrow, accounts, amount),
                                    data, owners, program_id, ext)

\* process running the handler although the payload did not decode
process_without_decode_check(program_id, accounts, instruction_data, data, owners, ext) ==
    process_init_escrow(accounts, 0, program_id, data, owners, ext)

\* Processor::process
process(program_id, accounts, instruction_data, data, owners, ext) ==
    LET instruction == EscrowInstruction_unpack(instruction_data)
    IN  IF ~instruction.ok
        THEN Outcome(instruction.err, data, owners, <<>>)
        ELSE process_init_escrow(accounts, instruction.amount, program_id,
                                 data, owners, ext)

(***************************************************************************)
(* One call of the program.                                                *)
(***************************************************************************)
Process ==
    /\ pc = "idle"
    /\ \E accounts \in AccountLists, instruction_data \in Payloads :
        \* the outcomes of the call, over what the environment decides
        \E out \in {process(ProgramId, accounts, instruction_data,
                            escrow_data, token_owner, ext) :
                        ext \in ExtChoices} :
            /\ pre_escrow_data' = escrow_data
            /\ pre_token_owner' = token_owner
            /\ call' = [accounts |-> accounts,
                        instruction_data |-> instruction_data]
            /\ result' = out.result
            /\ escrow_data' = out.escrow_data
            /\ token_owner' = out.token_owner
            /\ invoked' = out.invoked
            /\ pc' = "returned"

\* the result has been handed to the caller; the program waits for the next
\* instruction
Return ==
    /\ pc = "returned"
    /\ pc' = "idle"
    /\ pre_escrow_data' = escrow_data
    /\ pre_token_owner' = token_owner
    /\ call' = [accounts |-> <<>>, instruction_data |-> <<>>]
    /\ result' = "none"
    /\ invoked' = <<>>
    /\ UNCHANGED <<escrow_data, token_owner>>

Next == Process \/ Return

Spec == Init /\ [][Next]_vars

(***************************************************************************)
(* The last call, as the properties below read it.                         *)
(***************************************************************************)
Returned == pc = "returned"
NumAccounts == Len(call.accounts)
Acc(i) == call.accounts[i]

\* the payload is a well-formed Initialize: tag 0 and a whole amount
IsInitializeCall ==
    /\ Len(call.instruction_data) >= 1 + AmountLen
    /\ call.instruction_data[1] = 0

\* the amount the payload of the call carries
CallAmount == from_le_bytes(SubSeq(call.instruction_data, 2, 1 + AmountLen))

\* the four preconditions, on the accounts of the call and the ledger as it
\* was when the call started
SignerCheckPasses == NumAccounts >= 1 /\ Acc(1).is_signer
OwnershipCheckPasses ==
    NumAccounts >= 3 /\ AccountOwner(Acc(3).key) = SplTokenId
RentCheckPasses ==
    /\ NumAccounts >= 5
    /\ Acc(5).key = RentSysvarId
    /\ Lamports(Acc(4).key) >= Len(pre_escrow_data[Acc(4).key])
RecordWasFresh == NumAccounts >= 4 /\ pre_escrow_data[Acc(4).key][1] = 0
AllChecksPass ==
    /\ IsInitializeCall
    /\ SignerCheckPasses
    /\ OwnershipCheckPasses
    /\ RentCheckPasses
    /\ RecordWasFresh

\* the call issued one invocation, addressed to the token program
DelegationIssued ==
    Len(invoked) = 1 /\ invoked[1].ix.program_id = SplTokenId
DelegationSucceeded == DelegationIssued /\ invoked[1].ok
DelegationFailed == DelegationIssued /\ ~invoked[1].ok

DerivedAuthority == "pda_escrow"

\* the ledger is as it was when the call started
RecordStorageUnchanged == escrow_data = pre_escrow_data
AuthoritiesUnchanged == token_owner = pre_token_owner

(***************************************************************************)
(* C1.  An Initialize call that passes the signer, ownership, rent and     *)
(* double-init checks and whose delegation call to the token program       *)
(* succeeds returns Ok; the record storage then holds is_initialized = 1,  *)
(* the identities at positions 0, 1 and 2 and the amount of the call; and  *)
(* exactly one invocation was issued, moving the authority of the          *)
(* position-1 account from the initializer to the address derived from     *)
(* "escrow" and the program id.                                            *)
(***************************************************************************)
C1_InitializeCommits ==
    (Returned /\ AllChecksPass /\ DelegationSucceeded) =>
        /\ result = "Ok"
        /\ escrow_data[Acc(4).key] =
               <<1, Acc(1).key, Acc(2).key, Acc(3).key, CallAmount>>
        /\ Len(invoked) = 1
        /\ invoked[1].ix.account = Acc(2).key
        /\ invoked[1].ix.current_authority = Acc(1).key
        /\ invoked[1].ix.new_authority = DerivedAuthority
        /\ pre_token_owner[Acc(2).key] = Acc(1).key
        /\ token_owner[Acc(2).key] = DerivedAuthority

C1_Witness ==
    /\ Returned /\ AllChecksPass /\ DelegationSucceeded
    /\ result = "Ok"
    /\ CallAmount = 1
    /\ Acc(1).key = "bob"

(***************************************************************************)
(* C2.  An Initialize call in which all four checks pass and the           *)
(* delegation call to the token program fails returns DelegationFailed and *)
(* leaves the record storage as it was before the call.                    *)
(***************************************************************************)
C2_FailedDelegationLeavesRecord ==
    (Returned /\ AllChecksPass /\ DelegationFailed) =>
        /\ result = "DelegationFailed"
        /\ RecordStorageUnchanged

(***************************************************************************)
(* C3.  An Initialize call on a record storage that is already             *)
(* initialized (signer, ownership and rent checks passing) returns         *)
(* AccountAlreadyInitialized, leaves every field of the record as it was   *)
(* and issues no invocation.                                               *)
(***************************************************************************)
C3_Precondition ==
    /\ Returned /\ IsInitializeCall
    /\ SignerCheckPasses /\ OwnershipCheckPasses /\ RentCheckPasses
    /\ pre_escrow_data[Acc(4).key][1] = 1

C3_SecondInitializeRejected ==
    C3_Precondition =>
        /\ result = "AccountAlreadyInitialized"
        /\ RecordStorageUnchanged
        /\ AuthoritiesUnchanged
        /\ invoked = <<>>

C3_Witness ==
    /\ C3_Precondition
    /\ NumAccounts = 6
    /\ pre_escrow_data[Acc(4).key][2] # Acc(1).key
    /\ pre_escrow_data[Acc(4).key][5] # CallAmount

(***************************************************************************)
(* C4.  An Initialize call whose position-0 account is not a signer        *)
(* returns MissingRequiredSignature, leaves the record storage as it was   *)
(* and issues no invocation, whatever the other accounts and the record.   *)
(***************************************************************************)
C4_Precondition ==
    Returned /\ IsInitializeCall /\ NumAccounts >= 1 /\ ~Acc(1).is_signer

C4_UnsignedRejected ==
    C4_Precondition =>
        /\ result = "MissingRequiredSignature"
        /\ RecordStorageUnchanged
        /\ AuthoritiesUnchanged
        /\ invoked = <<>>

C4_Witness ==
    /\ C4_Precondition
    /\ NumAccounts = 6
    /\ OwnershipCheckPasses /\ RentCheckPasses /\ RecordWasFresh
    /\ Acc(6).key = SplTokenId

(***************************************************************************)
(* C5.  An Initialize call in which the signer check passes and the        *)
(* position-2 account is owned by another program than the token program   *)
(* returns IncorrectProgramId, issues no invocation and leaves the record  *)
(* storage as it was.                                                      *)
(***************************************************************************)
C5_Precondition ==
    /\ Returned /\ IsInitializeCall /\ SignerCheckPasses
    /\ NumAccounts >= 3
    /\ AccountOwner(Acc(3).key) # SplTokenId

C5_WrongOwnerRejected ==
    C5_Precondition =>
        /\ result = "IncorrectProgramId"
        /\ invoked = <<>>
        /\ RecordStorageUnchanged
        /\ AuthoritiesUnchanged

C5_Witness ==
    /\ C5_Precondition
    /\ NumAccounts = 6
    /\ RentCheckPasses /\ RecordWasFresh
    /\ Acc(6).key = SplTokenId

(***************************************************************************)
(* C6.  An Initialize call in which the signer and ownership checks pass   *)
(* and the rent sysvar reports the balance of the record storage not       *)
(* exempt for its length returns the program's own NotRentExempt error,    *)
(* which is none of the generic error kinds, leaves the record storage     *)
(* unwritten and issues no invocation.                                     *)
(***************************************************************************)
\* the kinds of ProgramError the processor and its callees return as such
GenericErrors ==
    {"NotEnoughAccountKeys", "MissingRequiredSignature", "IncorrectProgramId",
     "InvalidArgument", "InvalidAccountData", "AccountAlreadyInitialized"}

C6_Precondition ==
    /\ Returned /\ IsInitializeCall
    /\ SignerCheckPasses /\ OwnershipCheckPasses
    /\ NumAccounts >= 5
    /\ Acc(5).key = RentSysvarId
    /\ Lamports(Acc(4).key) < Len(pre_escrow_data[Acc(4).key])

C6_NotRentExemptRejected ==
    C6_Precondition =>
        /\ result = "NotRentExempt"
        /\ result \notin GenericErrors
        /\ RecordStorageUnchanged
        /\ AuthoritiesUnchanged
        /\ invoked = <<>>

C6_Witness ==
    /\ C6_Precondition
    /\ NumAccounts = 6
    /\ Acc(6).key = SplTokenId
    /\ pre_token_owner[Acc(2).key] = Acc(1).key

(***************************************************************************)
(* C7.  A payload that is empty, carries an unknown tag or is too short    *)
(* for its amount makes Processor::process return InvalidInstruction       *)
(* without running the Initialize handler: the record storage and the      *)
(* authorities are as before and no invocation is issued, whatever the     *)
(* account list.                                                           *)
(***************************************************************************)
C7_Precondition == Returned /\ ~IsInitializeCall

C7_UndecodableRejected ==
    C7_Precondition =>
        /\ result = "InvalidInstruction"
        /\ RecordStorageUnchanged
        /\ AuthoritiesUnchanged
        /\ invoked = <<>>

\* an unknown tag on an account list an Initialize would have accepted
C7_Witness ==
    /\ C7_Precondition
    /\ Len(call.instruction_data) = 1 + AmountLen
    /\ SignerCheckPasses /\ OwnershipCheckPasses /\ RentCheckPasses
    /\ RecordWasFresh
    /\ NumAccounts = 6
    /\ Acc(6).key = SplTokenId
    /\ pre_token_owner[Acc(2).key] = Acc(1).key

\* a known tag whose amount is cut short
C7_WitnessTruncated ==
    /\ C7_Precondition
    /\ Len(call.instruction_data) = AmountLen
    /\ call.instruction_data[1] = 0
    /\ NumAccounts = 6

SuppliedAccountsPass ==
    /\ NumAccounts >= 1 => Acc(1).is_signer
    /\ NumAccounts >= 3 => AccountOwner(Acc(3).key) = SplTokenId
    /\ NumAccounts >= 5 =>
          /\ Acc(5).key = RentSysvarId
          /\ Lamports(Acc(4).key) >= Len(pre_escrow_data[Acc(4).key])
          /\ pre_escrow_data[Acc(4).key][1] = 0

C8_WitnessFive ==
    /\ Returned /\ IsInitializeCall
    /\ NumAccounts = 5
    /\ SuppliedAccountsPass
    /\ result = "NotEnoughAccountKeys"

(***************************************************************************)
(* C9.  Every call that fails, whatever the failure, leaves the record     *)
(* storage and the authority of the temp token account as they were before *)
(* the call.                                                               *)
(***************************************************************************)
C9_FailureLeavesNoWrite ==
    (Returned /\ result # "Ok") =>
        /\ RecordStorageUnchanged
        /\ AuthoritiesUnchanged

(***************************************************************************)
(* C10.  In every state between calls, a record is initialized if and only *)
(* if the temp token account it names has the derived authority as owner:  *)
(* no initialized record without its delegation, no delegated account      *)
(* without its initialized record.                                         *)
(***************************************************************************)
C10_RecordIffDelegated ==
    /\ \A e \in EscrowAccounts :
          escrow_data[e][1] = 1 =>
              token_owner[escrow_data[e][3]] = DerivedAuthority
    /\ \A t \in TempAccounts :
          token_owner[t] = DerivedAuthority =>
              \E e \in EscrowAccounts :
                  escrow_data[e][1] = 1 /\ escrow_data[e][3] = t

(***************************************************************************)
(* C11.  When an Initialize call violates several of the four              *)
(* preconditions, the error it returns is that of the first violated one   *)
(* in the order signer, ownership, rent exemption, double init; a call     *)
(* returns one error.  Each check is taken on the calls that supply the    *)
(* accounts it reads (the rent check: with the rent sysvar at position 4). *)
(***************************************************************************)
SignerViolated == NumAccounts >= 1 /\ ~Acc(1).is_signer
OwnershipViolated ==
    NumAccounts >= 3 /\ AccountOwner(Acc(3).key) # SplTokenId
RentViolated ==
    /\ NumAccounts >= 5
    /\ Acc(5).key = RentSysvarId
    /\ Lamports(Acc(4).key) < Len(pre_escrow_data[Acc(4).key])
DoubleInitViolated ==
    NumAccounts >= 4 /\ pre_escrow_data[Acc(4).key][1] = 1

C11_WitnessOwnerRent ==
    /\ Returned /\ IsInitializeCall
    /\ SignerCheckPasses /\ OwnershipViolated /\ RentViolated
    /\ result = "IncorrectProgramId"

(***************************************************************************)
(* C12.  Over any sequence of calls, is_initialized of a record storage    *)
(* never goes from 1 back to 0, and a call succeeds only on a record       *)
(* storage that was not initialized and leaves it initialized: so at most  *)
(* one call on a record storage succeeds and every later one fails.        *)
(***************************************************************************)
C12_InitializedOnce ==
    [][ /\ \A e \in EscrowAccounts :
              escrow_data[e][1] = 1 => escrow_data'[e][1] = 1
        /\ (pc' = "returned" /\ result' = "Ok") =>
              /\ escrow_data[call'.accounts[4].key][1] = 0
              /\ escrow_data'[call'.accounts[4].key][1] = 1 ]_vars

\* a call on a record that an earlier, successful call initialized
C12_Witness ==
    /\ Returned /\ IsInitializeCall
    /\ SignerCheckPasses /\ OwnershipCheckPasses /\ RentCheckPasses
    /\ NumAccounts = 6 /\ Acc(6).key = SplTokenId
    /\ DoubleInitViolated
    /\ pre_token_owner[pre_escrow_data[Acc(4).key][3]] = DerivedAuthority
    /\ result # "Ok"
    /\ escrow_data[Acc(4).key][1] = 1

(***************************************************************************)
(* C13.  Once a record is initialized, its expected_amount and its three   *)
(* identities stay what they are through every further call, also a call   *)
(* with another amount, another initializer or other accounts.             *)
(***************************************************************************)
C13_RecordImmutable ==
    [][ \A e \in EscrowAccounts :
            escrow_data[e][1] = 1 => escrow_data'[e] = escrow_data[e] ]_vars

\* a call on an initialized record with another initializer, temp account
\* and amount, which left the record as it was
C13_Witness ==
    /\ Returned /\ IsInitializeCall
    /\ SignerCheckPasses /\ OwnershipCheckPasses /\ RentCheckPasses
    /\ NumAccounts = 6
    /\ pre_escrow_data[Acc(4).key][1] = 1
    /\ pre_escrow_data[Acc(4).key][2] # Acc(1).key
    /\ pre_escrow_data[Acc(4).key][3] # Acc(2).key
    /\ pre_escrow_data[Acc(4).key][5] # CallAmount
    /\ escrow_data[Acc(4).key] = pre_escrow_data[Acc(4).key]

(***************************************************************************)
(* C14.  Within a call the record is written after the delegation: a       *)
(* record storage that was not initialized holds is_initialized = 1 after  *)
(* the call only if the call issued its invocation and the invocation      *)
(* succeeded.                                                              *)
(***************************************************************************)
C14_WriteStagedAfterDelegation ==
    (Returned /\ IsInitializeCall /\ RecordWasFresh
        /\ escrow_data[Acc(4).key][1] = 1) =>
        (Len(invoked) = 1 /\ invoked[1].ok)

(***************************************************************************)
(* C15.  A successful call has addressed its one invocation to the token   *)
(* program, the program the ownership check names, and a call whose        *)
(* position-5 account is another program does not succeed and does not     *)
(* leave an initialized record.                                            *)
(***************************************************************************)
C15_DelegationToTokenProgram ==
    /\ (Returned /\ IsInitializeCall /\ result = "Ok") =>
           (Len(invoked) = 1 /\ invoked[1].ix.program_id = SplTokenId)
    /\ (Returned /\ IsInitializeCall /\ RecordWasFresh
           /\ NumAccounts >= 6 /\ Acc(6).key # SplTokenId) =>
           (result # "Ok" /\ escrow_data[Acc(4).key][1] = 0)

(***************************************************************************)
(* C16.  A call writes a record, and a call succeeds, only if all four     *)
(* preconditions held at that call; the record it writes names the signer  *)
(* of the call as initializer and the accounts of the call.  So in every   *)
(* state an initialized record names a receiving account owned by the      *)
(* token program and lies in a rent exempt storage.                        *)
(***************************************************************************)
C16_InitializedOnlyByValidCall ==
    /\ (Returned /\ (result = "Ok" \/ ~RecordStorageUnchanged)) =>
           /\ AllChecksPass
           /\ Acc(1).is_signer
           /\ escrow_data[Acc(4).key][2] = Acc(1).key
           /\ escrow_data[Acc(4).key][3] = Acc(2).key
           /\ escrow_data[Acc(4).key][4] = Acc(3).key
           /\ \A e \in EscrowAccounts :
                  e # Acc(4).key => escrow_data[e] = pre_escrow_data[e]
    /\ \A e \in EscrowAccounts :
           escrow_data[e][1] = 1 =>
               /\ escrow_data[e][2] \in Users
               /\ AccountOwner(escrow_data[e][4]) = SplTokenId
               /\ Lamports(e) >= Len(escrow_data[e])

\* the second record is initialized by a successful call of bob
C16_Witness ==
    /\ Returned /\ result = "Ok"
    /\ Acc(1).key = "bob"
    /\ Acc(4).key = "escrow2"
    /\ pre_escrow_data["escrow1"][1] = 1
    /\ escrow_data["escrow2"][1] = 1
    /\ pre_escrow_data["escrow2"][1] = 0

====
